---- MODULE Spec2Model ----
(***************************************************************************)
(* A model of dnf/logging.py.                                              *)
(*                                                                         *)
(* Part I  : MultiprocessRotatingFileHandler.emit run by several writer    *)
(*           processes that share one log file and one rotation lock.      *)
(* Part II : the Logging object's one-time setup of the process-wide       *)
(*           logger registry, and the routing of a record to the sinks.    *)
(* Part III: the dial -> level tables _cfg_verbose_val2level and           *)
(*           _cfg_err_val2level.                                           *)
(***************************************************************************)
EXTENDS Integers, Sequences, FiniteSets, TLC

----------------------------------------------------------------------------
(* Levels, logging.py lines 37-45.                                         *)
SUPERCRITICAL == 100
CRITICAL == 50
ERROR == 40
WARNING == 30
INFO == 20
DEBUG == 10
DDEBUG == 8
SUBDEBUG == 6
TRACE == 4

----------------------------------------------------------------------------
(* Bounds of the model.                                                    *)
NumProcs == 2
MaxRecords == 2
MaxMsgLen == 1
MaxBytesBound == 2
MaxBackupCount == 1
MaxFailures == 1
MaxDialExcess == 2
NumInsts == 2

Procs == 1..NumProcs
MaxInodes == MaxBackupCount + 1 + NumProcs
Inodes == 1..MaxInodes
NameIdx == 0..MaxBackupCount

VARIABLES
    active,       \* the writer processes that exist (1..N)
    maxBytes,     \* RotatingFileHandler.maxBytes   (the same file, the same conf)
    backupCount,  \* RotatingFileHandler.backupCount
    pc,           \* pc[p]: where process p is inside emit
    rec,          \* rec[p]: the record p is emitting, <<p, k, len>>
    sent,         \* sent[p]: how many records p has submitted so far
    stream,       \* stream[p]: the inode p's handler has open, 0 for None
    lockHolder,   \* the process inside `with self.rotate_lock`, 0 if none
    names,        \* names[0]: inode of baseFilename, names[i]: of baseFilename.i
    content,      \* content[i]: the records in inode i, oldest first
    failures,     \* how many non-lock failures the environment has injected
    nappend,      \* nappend[p]: appends of rec[p] made by the current emit
    nroll,        \* nroll[p]: doRollover calls completed by the current emit
    nherr,        \* nherr[p]: handleError calls made by the current emit
    escaped,      \* escaped[p]: an exception left emit
    contended,    \* contended[p]: the current emit met a held rotation lock
    bkBefore,     \* bkBefore[p]: backups present when p's doRollover began
    verbVal,      \* the last argument of _cfg_verbose_val2level
    verbRes,      \* and what the call did
    errVal,       \* the last argument of _cfg_err_val2level
    errRes,       \* and what the call did
    insts,            \* the Logging objects of the process (1..N)
    onceDone,         \* onceDone[i]: the only_once methods of i that are noop
    stdout_handler,   \* Logging.stdout_handler of i: a handler, 0 for None
    stderr_handler,   \* Logging.stderr_handler of i
    handlers,         \* the handler objects created so far
    loggers,          \* the logger registry: level, propagate, handlers
    levelNames,       \* logging.addLevelName
    captureWarnings,  \* logging.captureWarnings
    raiseExceptions,  \* logging.raiseExceptions
    librepoLog,       \* libdnf.repo.LibrepoLog.addHandler calls, in order
    marks,            \* the marker records painted, with the sinks reached
    lastCall,         \* the last setup call: the method reached, the outcome
    firstSetup,       \* firstSetup[i]: the first _setup call on i
    lastLog           \* the last record logged, with the sinks reached

fileVars == <<active, maxBytes, backupCount, pc, rec, sent, stream, lockHolder,
              names, content, failures, nappend, nroll, nherr, escaped,
              contended, bkBefore>>

dialVars == <<verbVal, verbRes, errVal, errRes>>

setupVars == <<insts, onceDone, stdout_handler, stderr_handler, handlers,
               loggers, levelNames, captureWarnings, raiseExceptions,
               librepoLog, marks, lastCall, firstSetup, lastLog>>

vars == <<fileVars, dialVars, setupVars>>

nonFileVars == <<dialVars, setupVars>>
nonDialVars == <<fileVars, setupVars>>
nonSetupVars == <<fileVars, dialVars>>

----------------------------------------------------------------------------
(* The dial tables, lines 65-90.  A call returns a level or fails its       *)
(* assert.                                                                 *)

Returned(l) == [ok |-> TRUE, level |-> l]
AssertionError == [ok |-> FALSE, level |-> 0]

\* dict.get(key, default)
DictGet(d, key, default) == IF key \in DOMAIN d THEN d[key] ELSE default

VERBOSE_VAL_MAPPING ==
    (0 :> SUPERCRITICAL) @@ (1 :> INFO) @@ (2 :> INFO) @@ (3 :> DEBUG)
        @@ (4 :> DEBUG) @@ (5 :> DEBUG) @@ (6 :> DEBUG)

\* The default of the table taken to be DEBUG.
cfg_verbose_val2level_DefaultDebug(cfg_errval) ==
    IF ~(0 <= cfg_errval /\ cfg_errval <= 10) THEN AssertionError
    ELSE Returned(DictGet(VERBOSE_VAL_MAPPING, cfg_errval, DEBUG))

cfg_verbose_val2level(cfg_errval) ==
    IF ~(0 <= cfg_errval /\ cfg_errval <= 10) THEN AssertionError
    ELSE Returned(DictGet(VERBOSE_VAL_MAPPING, cfg_errval, DDEBUG))

ERR_VAL_MAPPING == (0 :> SUPERCRITICAL) @@ (1 :> CRITICAL) @@ (2 :> ERROR)

\* The assert left out: any dial gets a level.
cfg_err_val2level_NoAssert(cfg_errval) ==
    Returned(DictGet(ERR_VAL_MAPPING, cfg_errval, WARNING))

cfg_err_val2level(cfg_errval) ==
    IF ~(0 <= cfg_errval /\ cfg_errval <= 10) THEN AssertionError
    ELSE Returned(DictGet(ERR_VAL_MAPPING, cfg_errval, WARNING))

DialInputs == (0 - MaxDialExcess)..(10 + MaxDialExcess)

NotCalled == [ok |-> FALSE, level |-> 0 - 1]

CfgVerbose(v) ==
    /\ verbVal' = v
    /\ verbRes' = cfg_verbose_val2level(v)
    /\ UNCHANGED <<errVal, errRes>>
    /\ UNCHANGED nonDialVars

CfgErr(e) ==
    /\ errVal' = e
    /\ errRes' = cfg_err_val2level(e)
    /\ UNCHANGED <<verbVal, verbRes>>
    /\ UNCHANGED nonDialVars

DialInit ==
    /\ verbVal = 0 /\ verbRes = NotCalled
    /\ errVal = 0 /\ errRes = NotCalled

----------------------------------------------------------------------------
(* The file system seen by the handlers.                                   *)

RECURSIVE SumLen(_)
SumLen(s) == IF s = << >> THEN 0 ELSE Head(s)[3] + SumLen(Tail(s))

\* stream.seek(0, 2); stream.tell()
Tell(i) == SumLen(content[i])

Referenced(nm, st) == {nm[i] : i \in NameIdx} \cup {st[p] : p \in Procs}

\* The inode a create gets: the lowest one nothing refers to.
FreshInode(nm, st) ==
    CHOOSE i \in Inodes : /\ i \notin Referenced(nm, st)
                          /\ \A j \in Inodes : j < i => j \in Referenced(nm, st)

\* An inode with no name and no open stream is freed.
Collect(nm, st, ct) ==
    [i \in Inodes |-> IF i \in Referenced(nm, st) THEN ct[i] ELSE << >>]

\* open(baseFilename, 'a'): the existing file, or a new empty one.
OpenNames(nm, st) ==
    IF nm[0] # 0 THEN nm ELSE [nm EXCEPT ![0] = FreshInode(nm, st)]

NumBackups(nm) == Cardinality({i \in NameIdx : i >= 1 /\ nm[i] # 0})

InFile(r, i) == \E k \in 1..Len(content[i]) : content[i][k] = r

InBackups(r) == \E i \in NameIdx : i >= 1 /\ names[i] # 0 /\ InFile(r, names[i])


----------------------------------------------------------------------------
(* logging.handlers.RotatingFileHandler, as emit uses it.                  *)

\* doRollover's loop: for i in range(backupCount - 1, 0, -1), rename
\* baseFilename.i to baseFilename.(i+1), removing the target first.
RECURSIVE ShiftBackups(_, _)
ShiftBackups(nm, i) ==
    IF i < 1 THEN nm
    ELSE ShiftBackups(IF nm[i] # 0 THEN [nm EXCEPT ![i + 1] = nm[i], ![i] = 0]
                      ELSE nm,
                      i - 1)

\* doRollover's renames: nothing at all when backupCount is 0; otherwise the
\* shift, the removal of baseFilename.1 and the rename of baseFilename to it.
RolledNames(nm) ==
    IF backupCount > 0
    THEN LET s == [ShiftBackups(nm, backupCount - 1) EXCEPT ![1] = 0]
         IN  IF s[0] # 0 THEN [s EXCEPT ![1] = s[0], ![0] = 0] ELSE s
    ELSE nm

\* shouldRollover(record) with the stream open on inode i.
ShouldRolloverAt(i, r) == maxBytes > 0 /\ Tell(i) + r[3] >= maxBytes

----------------------------------------------------------------------------
(* MultiprocessRotatingFileHandler.emit, lines 99-111.                     *)

InRollover(p) == pc[p] \in {"rollover", "exit_ok", "exit_exc"}

Goto(p, l) ==
    /\ pc' = [pc EXCEPT ![p] = l]
    /\ UNCHANGED <<nherr, escaped, contended>>

\* The lock error treated like any other: the record is given up.
OnLockError_GiveUp(p) ==
    /\ pc' = [pc EXCEPT ![p] = "done"]
    /\ contended' = [contended EXCEPT ![p] = TRUE]
    /\ UNCHANGED <<nherr, escaped>>

\* except (ProcessLockError, ThreadLockError): time.sleep(0.01)
OnLockError(p) ==
    /\ pc' = [pc EXCEPT ![p] = "sleep"]
    /\ contended' = [contended EXCEPT ![p] = TRUE]
    /\ UNCHANGED <<nherr, escaped>>

\* No except Exception clause: the exception leaves emit.
OnException_Propagate(p) ==
    /\ pc' = [pc EXCEPT ![p] = "done"]
    /\ escaped' = [escaped EXCEPT ![p] = TRUE]
    /\ UNCHANGED <<nherr, contended>>

\* except Exception: self.handleError(record); return
OnException(p) ==
    /\ pc' = [pc EXCEPT ![p] = "done"]
    /\ nherr' = [nherr EXCEPT ![p] = @ + 1]
    /\ UNCHANGED <<escaped, contended>>

\* The records submitted so far, by all the processes together.
RECURSIVE SumUpTo(_, _)
SumUpTo(f, n) == IF n = 0 THEN 0 ELSE f[n] + SumUpTo(f, n - 1)

TotalSent == SumUpTo(sent, NumProcs)

\* The logging framework calls emit(record) for the next record of p.
Emit(p, len) ==
    /\ p \in active
    /\ pc[p] = "idle"
    /\ TotalSent < MaxRecords
    /\ sent' = [sent EXCEPT ![p] = @ + 1]
    /\ rec' = [rec EXCEPT ![p] = <<p, sent[p] + 1, len>>]
    /\ pc' = [pc EXCEPT ![p] = "check"]
    /\ UNCHANGED <<active, maxBytes, backupCount, stream, lockHolder, names,
                   content, failures, nappend, nroll, nherr, escaped,
                   contended, bkBefore>>
    /\ UNCHANGED nonFileVars

\* The rollover test left out: the record is appended whatever the size.
ShouldRollover_Never(p) ==
    /\ pc[p] = "check"
    /\ Goto(p, "append")
    /\ UNCHANGED <<names, stream, failures>>
    /\ UNCHANGED <<active, maxBytes, backupCount, rec, sent, lockHolder, content,
                   nappend, nroll, bkBefore>>
    /\ UNCHANGED nonFileVars

\* if self.shouldRollover(record):  (it opens the stream if it is None)
ShouldRollover(p) ==
    /\ pc[p] = "check"
    /\ \/ /\ LET nm == IF stream[p] = 0 THEN OpenNames(names, stream) ELSE names
                 i == IF stream[p] = 0 THEN nm[0] ELSE stream[p]
             IN  /\ names' = nm
                 /\ stream' = [stream EXCEPT ![p] = i]
                 /\ Goto(p, IF ShouldRolloverAt(i, rec[p]) THEN "lock" ELSE "append")
          /\ UNCHANGED failures
       \/ /\ failures < MaxFailures
          /\ failures' = failures + 1
          /\ OnException(p)
          /\ UNCHANGED <<names, stream>>
    /\ UNCHANGED <<active, maxBytes, backupCount, rec, sent, lockHolder, content,
                   nappend, nroll, bkBefore>>
    /\ UNCHANGED nonFileVars

\* The rotation lock, dnf.lock.build_log_lock("/var/log/", True): one lock for
\* all the processes, that does not wait: entering it succeeds when no
\* process holds it and raises ProcessLockError when a sibling does.
LockAcquire(p) == lockHolder = 0 /\ lockHolder' = p

LockBusy(p) == lockHolder # 0 /\ lockHolder' = lockHolder

LockRelease(p) == lockHolder' = 0

\* The with statement left out: doRollover is reached without the lock.
RotateLockEnter_NoLock(p) ==
    /\ pc[p] = "lock"
    /\ Goto(p, "rollover")
    /\ UNCHANGED <<lockHolder, failures>>
    /\ UNCHANGED <<active, maxBytes, backupCount, rec, sent, stream, names,
                   content, nappend, nroll, bkBefore>>
    /\ UNCHANGED nonFileVars

\* with self.rotate_lock:
RotateLockEnter(p) ==
    /\ pc[p] = "lock"
    /\ \/ /\ LockAcquire(p)
          /\ Goto(p, "rollover")
          /\ UNCHANGED failures
       \/ /\ LockBusy(p)
          /\ OnLockError(p)
          /\ UNCHANGED failures
       \/ /\ failures < MaxFailures
          /\ failures' = failures + 1
          /\ OnException(p)
          /\ UNCHANGED lockHolder
    /\ UNCHANGED <<active, maxBytes, backupCount, rec, sent, stream, names,
                   content, nappend, nroll, bkBefore>>
    /\ UNCHANGED nonFileVars

\* self.doRollover(): close the stream, rename the backups, reopen (a file
\* that lost its last name is freed before the new one is created).  When it
\* raises, the stream is closed and the renames are done or not.
DoRollover(p) ==
    /\ pc[p] = "rollover"
    /\ bkBefore' = [bkBefore EXCEPT ![p] = NumBackups(names)]
    /\ LET closed == [stream EXCEPT ![p] = 0]
       IN  \/ /\ names' = OpenNames(RolledNames(names), closed)
              /\ stream' = [closed EXCEPT ![p] = names'[0]]
              /\ content' = Collect(names', stream',
                                    Collect(RolledNames(names), closed, content))
              /\ nroll' = [nroll EXCEPT ![p] = @ + 1]
              /\ Goto(p, "exit_ok")
              /\ UNCHANGED failures
           \/ /\ failures < MaxFailures
              /\ failures' = failures + 1
              /\ names' \in {names, RolledNames(names)}
              /\ stream' = closed
              /\ content' = Collect(names', stream', content)
              /\ Goto(p, "exit_exc")
              /\ UNCHANGED nroll
    /\ UNCHANGED <<active, maxBytes, backupCount, rec, sent, lockHolder, nappend>>
    /\ UNCHANGED nonFileVars

\* acquire / doRollover / release written without try-finally: the lock stays
\* held when doRollover raises.
RotateLockExit_KeepOnRaise(p) ==
    /\ pc[p] \in {"exit_ok", "exit_exc"}
    /\ IF pc[p] = "exit_ok" THEN LockRelease(p) ELSE UNCHANGED lockHolder
    /\ IF pc[p] = "exit_ok" THEN Goto(p, "append") ELSE OnException(p)
    /\ UNCHANGED <<active, maxBytes, backupCount, rec, sent, stream, names,
                   content, failures, nappend, nroll, bkBefore>>
    /\ UNCHANGED nonFileVars

\* The end of the with block: __exit__ releases the lock, and an exception
\* of doRollover goes on to the except clauses.
RotateLockExit(p) ==
    /\ pc[p] \in {"exit_ok", "exit_exc"}
    /\ LockRelease(p)
    /\ IF pc[p] = "exit_ok" THEN Goto(p, "append") ELSE OnException(p)
    /\ UNCHANGED <<active, maxBytes, backupCount, rec, sent, stream, names,
                   content, failures, nappend, nroll, bkBefore>>
    /\ UNCHANGED nonFileVars

\* The record written at the start of the file.
AppendRecord_AtStart(ct, i, r) == [ct EXCEPT ![i] = <<r>> \o @]

\* stream.write(msg) on a stream opened with mode 'a'.
AppendRecord(ct, i, r) == [ct EXCEPT ![i] = Append(@, r)]

\* logging.FileHandler.emit(self, record); return.  StreamHandler.emit
\* catches its own failure and calls handleError itself.
FileHandlerEmit(p) ==
    /\ pc[p] = "append"
    /\ \/ /\ LET nm == IF stream[p] = 0 THEN OpenNames(names, stream) ELSE names
                 i == IF stream[p] = 0 THEN nm[0] ELSE stream[p]
             IN  /\ names' = nm
                 /\ stream' = [stream EXCEPT ![p] = i]
                 /\ content' = AppendRecord(content, i, rec[p])
          /\ nappend' = [nappend EXCEPT ![p] = @ + 1]
          /\ Goto(p, "done")
          /\ UNCHANGED failures
       \/ /\ failures < MaxFailures
          /\ failures' = failures + 1
          /\ pc' = [pc EXCEPT ![p] = "done"]
          /\ nherr' = [nherr EXCEPT ![p] = @ + 1]
          /\ UNCHANGED <<names, stream, content, nappend, escaped, contended>>
    /\ UNCHANGED <<active, maxBytes, backupCount, rec, sent, lockHolder, nroll,
                   bkBefore>>
    /\ UNCHANGED nonFileVars

\* time.sleep(0.01), then the while loop starts over.
Sleep(p) ==
    /\ pc[p] = "sleep"
    /\ Goto(p, "check")
    /\ UNCHANGED <<active, maxBytes, backupCount, rec, sent, stream, lockHolder,
                   names, content, failures, nappend, nroll, bkBefore>>
    /\ UNCHANGED nonFileVars

\* emit has returned (line 106 or line 111) and the caller goes on; the
\* per-call bookkeeping of the model is cleared.
Return(p) ==
    /\ pc[p] = "done"
    /\ pc' = [pc EXCEPT ![p] = "idle"]
    /\ nappend' = [nappend EXCEPT ![p] = 0]
    /\ nroll' = [nroll EXCEPT ![p] = 0]
    /\ nherr' = [nherr EXCEPT ![p] = 0]
    /\ contended' = [contended EXCEPT ![p] = FALSE]
    /\ bkBefore' = [bkBefore EXCEPT ![p] = 0]
    /\ UNCHANGED <<active, maxBytes, backupCount, rec, sent, stream, lockHolder,
                   names, content, failures, escaped>>
    /\ UNCHANGED nonFileVars

EmitStep(p) ==
    \/ ShouldRollover(p)
    \/ RotateLockEnter(p)
    \/ DoRollover(p)
    \/ RotateLockExit(p)
    \/ FileHandlerEmit(p)
    \/ Sleep(p)
    \/ Return(p)

----------------------------------------------------------------------------
(* The logger registry and the sinks.  A state of the logging machinery is  *)
(* a record s; the methods of Logging are functions from s to s, so that a *)
(* method is its calls in their order.  s.raised says an exception is on   *)
(* its way out.                                                            *)

Insts == 1..NumInsts
LoggerNames == {"dnf", "dnf.rpm", "py.warnings"}
LogDirs == {"/var/log", "/tmp"}
LogSizes == {1000}
LogRotates == {4}
FailSteps == {"none", "dnf", "librepo", "rpm"}

\* dnf.const.LOG, LOG_RPM, LOG_LIBREPO
LOG == "dnf.log"
LOG_RPM == "dnf.rpm.log"
LOG_LIBREPO == "dnf.librepo.log"

Cur ==
    [done |-> onceDone, stdoutH |-> stdout_handler, stderrH |-> stderr_handler,
     handlers |-> handlers, loggers |-> loggers, levelNames |-> levelNames,
     captureWarnings |-> captureWarnings, raiseExceptions |-> raiseExceptions,
     librepo |-> librepoLog, marks |-> marks, raised |-> FALSE]

\* The state of a process that has imported the module and made its Logging
\* objects: no logger has a level, a handler or propagate switched off.
Pristine ==
    [done |-> [i \in Insts |-> {}],
     stdoutH |-> [i \in Insts |-> 0], stderrH |-> [i \in Insts |-> 0],
     handlers |-> << >>,
     loggers |-> [n \in LoggerNames |->
                     [level |-> 0, propagate |-> TRUE, handlers |-> << >>]],
     levelNames |-> {}, captureWarnings |-> FALSE, raiseExceptions |-> TRUE,
     librepo |-> << >>, marks |-> << >>, raised |-> FALSE]

\* _MaxLevelFilter.filter with the bound made inclusive.
MaxLevelFilter_Inclusive(max_level, levelno) ==
    IF levelno > max_level THEN 0 ELSE 1

\* _MaxLevelFilter.filter, lines 60-63.
MaxLevelFilter(max_level, levelno) ==
    IF levelno >= max_level THEN 0 ELSE 1

\* Where a handler writes: the console stream, or its log file.
Target(h) == [dir |-> h.dir, name |-> h.name]
Console(n) == [dir |-> "", name |-> n]
File(dir, n) == [dir |-> dir, name |-> n]

\* callHandlers' test and Handler.handle's filter, for one handler.
HandlerAccepts(h, levelno) ==
    /\ levelno >= h.level
    /\ h.maxLevel = 0 \/ MaxLevelFilter(h.maxLevel, levelno) = 1

RECURSIVE TargetsOf(_, _, _)
TargetsOf(s, hs, levelno) ==
    IF hs = << >> THEN << >>
    ELSE (IF HandlerAccepts(s.handlers[Head(hs)], levelno)
          THEN <<Target(s.handlers[Head(hs)])>> ELSE << >>)
         \o TargetsOf(s, Tail(hs), levelno)

\* A logger and its ancestors below the root.  The root logger has the level
\* WARNING and, in this model, no handler.
Chain(n) == IF n = "dnf.rpm" THEN <<"dnf.rpm", "dnf">> ELSE <<n>>

RECURSIVE EffectiveLevel(_, _)
EffectiveLevel(s, chain) ==
    IF chain = << >> THEN WARNING
    ELSE IF s.loggers[Head(chain)].level # 0 THEN s.loggers[Head(chain)].level
    ELSE EffectiveLevel(s, Tail(chain))

RECURSIVE CallHandlers(_, _, _)
CallHandlers(s, chain, levelno) ==
    IF chain = << >> THEN << >>
    ELSE TargetsOf(s, s.loggers[Head(chain)].handlers, levelno)
         \o (IF s.loggers[Head(chain)].propagate
             THEN CallHandlers(s, Tail(chain), levelno) ELSE << >>)

\* Logger.log(level, msg): the sinks the record is written to, in order.
Deliver(s, n, levelno) ==
    IF levelno >= EffectiveLevel(s, Chain(n))
    THEN CallHandlers(s, Chain(n), levelno) ELSE << >>

Count(seq, x) == Cardinality({k \in 1..Len(seq) : seq[k] = x})
Reaches(seq, x) == Count(seq, x) > 0

SetLoggerLevel(s, n, l) == [s EXCEPT !.loggers[n].level = l]

\* Logger.addHandler: a handler already on the logger is not added again.
AddHandler(s, n, h) ==
    IF \E k \in 1..Len(s.loggers[n].handlers) : s.loggers[n].handlers[k] = h
    THEN s
    ELSE [s EXCEPT !.loggers[n].handlers = Append(@, h)]

SetHandlerLevel(s, h, l) == [s EXCEPT !.handlers[h].level = l]

NewHandler(s, h) == [s EXCEPT !.handlers = Append(@, h)]

Raise(s) == [s EXCEPT !.raised = TRUE]

\* _paint_mark, lines 128-129.
PaintMark(s, n) ==
    [s EXCEPT !.marks = Append(@, [logger |-> n, level |-> INFO,
                                   to |-> Deliver(s, n, INFO)])]

\* only_once without the setattr: the body runs at every call.
only_once_Always(s, i, name, r) == r

\* only_once with the setattr in a finally: done even when the body raised.
only_once_MarkOnRaise(s, i, name, r) ==
    IF name \in s.done[i] THEN s
    ELSE [r EXCEPT !.done[i] = @ \cup {name}]

\* only_once, lines 47-54: a noop once the body has returned; r is what the
\* body makes of s.
only_once(s, i, name, r) ==
    IF name \in s.done[i] THEN s
    ELSE IF r.raised THEN r
    ELSE [r EXCEPT !.done[i] = @ \cup {name}]

\* _create_filehandler, lines 114-126; fails when the environment says so.
CreateFilehandler(s, dir, name, log_size, log_rotate, fails) ==
    IF fails THEN Raise(s)
    ELSE NewHandler(s, [kind |-> "file", level |-> 0, maxLevel |-> 0,
                        dir |-> dir, name |-> name,
                        maxBytes |-> log_size, backupCount |-> log_rotate])

\* A statement reached with an exception on its way out is not executed.
Then(s, r) == IF s.raised THEN s ELSE r

NewLoggingLevels(s, i) ==
    only_once(s, i, "_new_logging_levels",
              [s EXCEPT !.levelNames = @ \cup {<<DDEBUG, "DDEBUG">>,
                                               <<SUBDEBUG, "SUBDEBUG">>,
                                               <<TRACE, "TRACE">>}])

ConsoleHandler(n, level, maxLevel) ==
    [kind |-> n, level |-> level, maxLevel |-> maxLevel, dir |-> "", name |-> n,
     maxBytes |-> 0, backupCount |-> 0]

\* _presetup, lines 149-153: the stdout handler.
PresetupStdout(s, i) ==
    [AddHandler(NewHandler(s, ConsoleHandler("stdout", INFO, WARNING)),
                "dnf", Len(s.handlers) + 1)
        EXCEPT !.stdoutH[i] = Len(s.handlers) + 1]

\* _presetup, lines 156-159: the stderr handler.
PresetupStderr(s, i) ==
    [AddHandler(NewHandler(s, ConsoleHandler("stderr", WARNING, 0)),
                "dnf", Len(s.handlers) + 1)
        EXCEPT !.stderrH[i] = Len(s.handlers) + 1]

PresetupBody(s, i) ==
    PresetupStderr(
        PresetupStdout(SetLoggerLevel(NewLoggingLevels(s, i), "dnf", TRACE), i),
        i)

Presetup(s, i) == only_once(s, i, "_presetup", PresetupBody(s, i))

\* _setup_rpm_logger, lines 169-171, the handler being the last one made.
RpmAttach(s) ==
    Then(s, PaintMark(SetLoggerLevel(AddHandler(s, "dnf.rpm", Len(s.handlers)),
                                     "dnf.rpm", SUBDEBUG),
                      "dnf.rpm"))

\* _setup_rpm_logger without line 166: the logger goes on propagating.
SetupRpmLoggerBody_Propagating(s, i, logdir, log_size, log_rotate, fail) ==
    RpmAttach(CreateFilehandler(s, logdir, LOG_RPM, log_size, log_rotate,
                                fail = "rpm"))

SetupRpmLoggerBody(s, i, logdir, log_size, log_rotate, fail) ==
    RpmAttach(
        CreateFilehandler([s EXCEPT !.loggers["dnf.rpm"].propagate = FALSE],
                          logdir, LOG_RPM, log_size, log_rotate, fail = "rpm"))

SetupRpmLogger(s, i, logdir, log_size, log_rotate, fail) ==
    Then(s, only_once(s, i, "_setup_rpm_logger",
                      SetupRpmLoggerBody(s, i, logdir, log_size, log_rotate, fail)))

\* _setup_librepo_logger with the debug flag for levels below DEBUG only.
SetupLibrepoLoggerBody_BelowDebug(s, i, logdir, verbosity, fail) ==
    IF fail = "librepo" THEN Raise(s)
    ELSE [s EXCEPT !.librepo = Append(@, [dir |-> logdir, name |-> LOG_LIBREPO,
                                          debug |-> verbosity < DEBUG])]

\* _setup_librepo_logger, lines 173-176.
SetupLibrepoLoggerBody(s, i, logdir, verbosity, fail) ==
    IF fail = "librepo" THEN Raise(s)
    ELSE [s EXCEPT !.librepo = Append(@, [dir |-> logdir, name |-> LOG_LIBREPO,
                                          debug |-> verbosity <= DEBUG])]

SetupLibrepoLogger(s, i, logdir, verbosity, fail) ==
    Then(s, only_once(s, i, "_setup_librepo_logger",
                      SetupLibrepoLoggerBody(s, i, logdir, verbosity, fail)))

\* _setup_dnf_logger, lines 186-192, the handler being the last one made.
DnfAttach(s, i) ==
    Then(s, PaintMark(
                AddHandler(
                    AddHandler([AddHandler(s, "dnf", Len(s.handlers))
                                   EXCEPT !.captureWarnings = TRUE],
                               "py.warnings", s.stderrH[i]),
                    "py.warnings", Len(s.handlers)),
                "dnf"))

SetupDnfLoggerBody(s, i, logdir, log_size, log_rotate, fail) ==
    DnfAttach(
        CreateFilehandler(SetLoggerLevel(s, "dnf", TRACE), logdir, LOG, log_size,
                          log_rotate, fail = "dnf"),
        i)

SetupDnfLogger(s, i, logdir, log_size, log_rotate, fail) ==
    Then(s, only_once(s, i, "_setup_dnf_logger",
                      SetupDnfLoggerBody(s, i, logdir, log_size, log_rotate, fail)))

\* The consoles left as they are while the file handlers are made.
TurnOffConsoles_Skip(s, i) == s

\* _setup, lines 199-200.
TurnOffConsoles(s, i) ==
    SetHandlerLevel(SetHandlerLevel(s, s.stdoutH[i], SUPERCRITICAL),
                    s.stderrH[i], SUPERCRITICAL)

\* _setup, lines 212-218.
SetupFinish(s, i, verbose_level, error_level) ==
    Then(s,
         [SetHandlerLevel(
              SetHandlerLevel(
                  AddHandler(AddHandler(s, "dnf.rpm", s.stdoutH[i]),
                             "dnf.rpm", s.stderrH[i]),
                  s.stdoutH[i], verbose_level),
              s.stderrH[i], error_level)
             EXCEPT !.raiseExceptions = FALSE])

SetupBody(s, i, verbose_level, error_level, logdir, log_size, log_rotate, fail) ==
    SetupFinish(
        SetupRpmLogger(
            SetupLibrepoLogger(
                SetupDnfLogger(TurnOffConsoles(Presetup(s, i), i),
                               i, logdir, log_size, log_rotate, fail),
                i, logdir, verbose_level, fail),
            i, logdir, log_size, log_rotate, fail),
        i, verbose_level, error_level)

Setup(s, i, verbose_level, error_level, logdir, log_size, log_rotate, fail) ==
    only_once(s, i, "_setup",
              SetupBody(s, i, verbose_level, error_level, logdir, log_size,
                        log_rotate, fail))

\* _setup_from_dnf_conf, lines 220-226.
SetupFromDnfConf(s, i, debuglevel, errorlevel, logdir, log_size, log_rotate, fail) ==
    LET verbose_level_r == cfg_verbose_val2level(debuglevel)
        error_level_r == cfg_err_val2level(errorlevel)
    IN  IF ~verbose_level_r.ok \/ ~error_level_r.ok THEN Raise(s)
        ELSE Setup(s, i, verbose_level_r.level, error_level_r.level, logdir,
                   log_size, log_rotate, fail)

----------------------------------------------------------------------------
(* LibdnfLoggerCB, lines 240-265.  The native levels are named, not         *)
(* numbered; "other" is a level the table does not have.                   *)

NativeLevels ==
    {"critical", "error", "warning", "notice", "info", "debug", "trace"}
NativeInputs == NativeLevels \cup {"other"}
Messages == {"disk slow", "done"}

\* No log call in progress.
NoLog == [logger |-> "", level |-> 0, msg |-> "", to |-> << >>, args |-> << >>,
          raised |-> FALSE]

\* The table with notice taken for a warning.
LIBDNF_TO_DNF_LOGLEVEL_MAPPING_NoticeWarning ==
    [l \in NativeLevels |->
        CASE l = "critical" -> CRITICAL
          [] l = "error" -> ERROR
          [] l = "warning" -> WARNING
          [] l = "notice" -> WARNING
          [] l = "info" -> INFO
          [] l = "debug" -> DEBUG
          [] l = "trace" -> TRACE]

LIBDNF_TO_DNF_LOGLEVEL_MAPPING ==
    [l \in NativeLevels |->
        CASE l = "critical" -> CRITICAL
          [] l = "error" -> ERROR
          [] l = "warning" -> WARNING
          [] l = "notice" -> INFO
          [] l = "info" -> INFO
          [] l = "debug" -> DEBUG
          [] l = "trace" -> TRACE]

\* LibdnfLoggerCB.__init__, line 254: the logger write logs to.
LibdnfLogger == "dnf"

\* write, lines 261-264: the level and the message of a payload of two or of
\* four.
ArgsLevel(args) == IF Len(args) = 2 THEN args[1] ELSE args[3]
ArgsMessage(args) == IF Len(args) = 2 THEN args[2] ELSE args[4]

\* The record write logs for a payload, as lastLog holds it.
WriteRecord(s, args, levelno) ==
    [logger |-> LibdnfLogger, level |-> levelno, msg |-> ArgsMessage(args),
     to |-> Deliver(s, LibdnfLogger, levelno), args |-> args, raised |-> FALSE]

\* write with a level the table lacks logged as a warning.
Write_DefaultWarning(s, source, args) ==
    WriteRecord(s, args,
                DictGet(LIBDNF_TO_DNF_LOGLEVEL_MAPPING, ArgsLevel(args), WARNING))

\* LibdnfLoggerCB.write, lines 256-265: the subscript of line 265 raises
\* KeyError for a level that is not in the table, before anything is logged.
Write(s, source, args) ==
    IF ArgsLevel(args) \in DOMAIN LIBDNF_TO_DNF_LOGLEVEL_MAPPING
    THEN WriteRecord(s, args, LIBDNF_TO_DNF_LOGLEVEL_MAPPING[ArgsLevel(args)])
    ELSE [NoLog EXCEPT !.args = args, !.raised = TRUE]

----------------------------------------------------------------------------
(* The calls the application makes on its Logging objects and loggers.     *)

Install(r) ==
    /\ onceDone' = r.done
    /\ stdout_handler' = r.stdoutH
    /\ stderr_handler' = r.stderrH
    /\ handlers' = r.handlers
    /\ loggers' = r.loggers
    /\ levelNames' = r.levelNames
    /\ captureWarnings' = r.captureWarnings
    /\ raiseExceptions' = r.raiseExceptions
    /\ librepoLog' = r.librepo
    /\ marks' = r.marks

NoSetup == [called |-> FALSE, ok |-> FALSE, conf |-> FALSE, verbose_level |-> 0,
            error_level |-> 0, logdir |-> "", log_size |-> 0, log_rotate |-> 0]
NoCall == [op |-> "", raised |-> FALSE, again |-> FALSE, differs |-> FALSE]

\* The levels the two tables give, the arguments _setup is called with.
VerboseLevels == {cfg_verbose_val2level(v).level : v \in 0..10}
ErrorLevels == {cfg_err_val2level(e).level : e \in 0..10}

NamedLevels == {TRACE, SUBDEBUG, DDEBUG, DEBUG, INFO, WARNING, ERROR, CRITICAL}
\* The levels records are logged at: every named tier, and one below TRACE.
RecordLevels == NamedLevels \cup {TRACE - 1}

SetupArgs(f) ==
    <<f.verbose_level, f.error_level, f.logdir, f.log_size, f.log_rotate>>

\* What the first _setup call on i was, once there has been one: that it
\* raised, or the arguments it returned with, and whether they came from the
\* configuration (conf).
NoteSetup(i, r, conf, vl, el, logdir, log_size, log_rotate) ==
    firstSetup' =
        IF firstSetup[i].called THEN firstSetup
        ELSE IF r.raised THEN [firstSetup EXCEPT ![i] = [NoSetup EXCEPT !.called = TRUE]]
        ELSE [firstSetup EXCEPT ![i] =
                 [called |-> TRUE, ok |-> TRUE, conf |-> conf,
                  verbose_level |-> vl, error_level |-> el, logdir |-> logdir,
                  log_size |-> log_size, log_rotate |-> log_rotate]]

\* What the last call was: its name, whether it raised, whether the method
\* had been called on i before (again) and, for _setup, whether its arguments
\* differ from those of the first call.
NoteCall(i, op, r, vl, el, logdir, log_size, log_rotate) ==
    lastCall' =
        [op |-> op, raised |-> r.raised, again |-> firstSetup[i].called,
         differs |-> /\ firstSetup[i].ok
                     /\ SetupArgs(firstSetup[i])
                            # <<vl, el, logdir, log_size, log_rotate>>]

CallPresetup(i) ==
    /\ i \in insts
    /\ lastLog = NoLog
    /\ LET r == Presetup(Cur, i)
       IN  /\ Install(r)
           /\ lastCall' = [op |-> "_presetup", raised |-> r.raised,
                           again |-> "_presetup" \in onceDone[i],
                           differs |-> FALSE]
    /\ UNCHANGED <<insts, firstSetup, lastLog>>
    /\ UNCHANGED nonSetupVars

CallSetup(i, vl, el, logdir, log_size, log_rotate, fail) ==
    /\ i \in insts
    /\ lastLog = NoLog
    /\ LET r == Setup(Cur, i, vl, el, logdir, log_size, log_rotate, fail)
       IN  /\ Install(r)
           /\ NoteCall(i, "_setup", r, vl, el, logdir, log_size, log_rotate)
           /\ NoteSetup(i, r, FALSE, vl, el, logdir, log_size, log_rotate)
    /\ UNCHANGED <<insts, lastLog>>
    /\ UNCHANGED nonSetupVars

CallSetupFromDnfConf(i, v, e, logdir, log_size, log_rotate, fail) ==
    /\ i \in insts
    /\ lastLog = NoLog
    /\ LET r == SetupFromDnfConf(Cur, i, v, e, logdir, log_size, log_rotate, fail)
           vl == cfg_verbose_val2level(v)
           el == cfg_err_val2level(e)
       IN  /\ Install(r)
           /\ IF vl.ok /\ el.ok
              THEN /\ NoteCall(i, "_setup", r, vl.level, el.level, logdir,
                               log_size, log_rotate)
                   /\ NoteSetup(i, r, TRUE, vl.level, el.level, logdir,
                                log_size, log_rotate)
              ELSE /\ lastCall' = [NoCall EXCEPT !.op = "_setup_from_dnf_conf",
                                                 !.raised = r.raised]
                   /\ UNCHANGED firstSetup
    /\ UNCHANGED <<insts, lastLog>>
    /\ UNCHANGED nonSetupVars

\* logging.getLogger(n).log(levelno, msg), as Timer.__call__ and
\* LibdnfLoggerCB.write call it: the record goes to the sinks of lastLog.to.
\* The process has one thread, so nothing else runs until log returns.
LogRecord(n, levelno) ==
    /\ lastLog = NoLog
    /\ lastLog' = [logger |-> n, level |-> levelno, msg |-> "timer",
                   to |-> Deliver(Cur, n, levelno), args |-> << >>,
                   raised |-> FALSE]
    /\ UNCHANGED <<insts, onceDone, stdout_handler, stderr_handler, handlers,
                   loggers, levelNames, captureWarnings, raiseExceptions,
                   librepoLog, marks, lastCall, firstSetup>>
    /\ UNCHANGED nonSetupVars

\* libdnf calls libdnfLoggerCB.write(source, *args).
LibdnfWrite(source, args) ==
    /\ lastLog = NoLog
    /\ lastLog' = Write(Cur, source, args)
    /\ UNCHANGED <<insts, onceDone, stdout_handler, stderr_handler, handlers,
                   loggers, levelNames, captureWarnings, raiseExceptions,
                   librepoLog, marks, lastCall, firstSetup>>
    /\ UNCHANGED nonSetupVars

\* The payloads of write: (level, message) and (time, pid, level, message).
Payloads ==
    {<<l, m>> : l \in NativeInputs, m \in Messages}
        \cup {<<0, 1, l, m>> : l \in NativeInputs, m \in Messages}

\* log, or write, returns to its caller (write by raising, if it raised).
LogReturn ==
    /\ lastLog # NoLog
    /\ lastLog' = NoLog
    /\ UNCHANGED <<insts, onceDone, stdout_handler, stderr_handler, handlers,
                   loggers, levelNames, captureWarnings, raiseExceptions,
                   librepoLog, marks, lastCall, firstSetup>>
    /\ UNCHANGED nonSetupVars

\* The process has made its Logging objects, I says how many.
SetupInit(I) ==
    /\ insts \in I
    /\ onceDone = Pristine.done
    /\ stdout_handler = Pristine.stdoutH
    /\ stderr_handler = Pristine.stderrH
    /\ handlers = Pristine.handlers
    /\ loggers = Pristine.loggers
    /\ levelNames = Pristine.levelNames
    /\ captureWarnings = Pristine.captureWarnings
    /\ raiseExceptions = Pristine.raiseExceptions
    /\ librepoLog = Pristine.librepo
    /\ marks = Pristine.marks
    /\ lastCall = NoCall
    /\ firstSetup = [i \in Insts |-> NoSetup]
    /\ lastLog = NoLog

SetupNext ==
    \/ \E i \in Insts : CallPresetup(i)
    \/ \E i \in Insts, vl \in VerboseLevels, el \in ErrorLevels, d \in LogDirs,
          sz \in LogSizes, rt \in LogRotates, f \in FailSteps :
            CallSetup(i, vl, el, d, sz, rt, f)
    \/ \E i \in Insts, v \in DialInputs, e \in DialInputs, d \in LogDirs,
          sz \in LogSizes, rt \in LogRotates, f \in FailSteps :
            CallSetupFromDnfConf(i, v, e, d, sz, rt, f)
    \/ \E n \in {"dnf", "dnf.rpm"}, l \in RecordLevels : LogRecord(n, l)
    \/ \E source \in {0, 1}, args \in Payloads : LibdnfWrite(source, args)
    \/ LogReturn

\* The same calls with the arguments of _setup drawn from fewer values.
ManyNext ==
    \/ \E i \in Insts : CallPresetup(i)
    \/ \E i \in Insts, vl \in {INFO, DEBUG}, el \in {WARNING, SUPERCRITICAL},
          d \in {"/var/log"}, sz \in LogSizes, rt \in LogRotates,
          f \in {"none", "rpm"} :
            CallSetup(i, vl, el, d, sz, rt, f)
    \/ \E i \in Insts, v \in {2, 6}, e \in {0, 3}, d \in {"/var/log"},
          sz \in LogSizes, rt \in LogRotates, f \in {"none", "rpm"} :
            CallSetupFromDnfConf(i, v, e, d, sz, rt, f)
    \/ \E n \in {"dnf", "dnf.rpm"}, l \in {DEBUG, INFO, WARNING} : LogRecord(n, l)
    \/ \E args \in {<<"warning", "disk slow">>, <<0, 1, "other", "done">>} :
            LibdnfWrite(0, args)
    \/ LogReturn

\* _create_filehandler has touched the file and every handler has opened it.
\* f is the number of failures the environment has already used up; A, MB
\* and BC are the choices of the writers and of the two rotation parameters.
InitFiles(f, A, MB, BC) ==
    /\ active \in A
    /\ maxBytes \in MB
    /\ backupCount \in BC
    /\ pc = [p \in Procs |-> "idle"]
    /\ rec = [p \in Procs |-> <<p, 0, 0>>]
    /\ sent = [p \in Procs |-> 0]
    /\ names = [i \in NameIdx |-> IF i = 0 THEN 1 ELSE 0]
    /\ stream = [p \in Procs |-> IF p \in active THEN 1 ELSE 0]
    /\ content = [i \in Inodes |-> << >>]
    /\ lockHolder = 0
    /\ failures = f
    /\ nappend = [p \in Procs |-> 0]
    /\ nroll = [p \in Procs |-> 0]
    /\ nherr = [p \in Procs |-> 0]
    /\ escaped = [p \in Procs |-> FALSE]
    /\ contended = [p \in Procs |-> FALSE]
    /\ bkBefore = [p \in Procs |-> 0]

Writers == {1..n : n \in Procs}

\* Outside the specification of the file handler there is one writer, idle.
NoFiles == InitFiles(0, {{1}}, {0}, {0})

Init ==
    /\ InitFiles(0, Writers, 0..MaxBytesBound, 0..MaxBackupCount)
    /\ DialInit
    /\ SetupInit({{1}})

Next ==
    \E p \in Procs :
        \/ \E len \in 1..MaxMsgLen : Emit(p, len)
        \/ EmitStep(p)

DialNext ==
    \/ \E v \in DialInputs : CfgVerbose(v)
    \/ \E e \in DialInputs : CfgErr(e)

\* The two table functions called with any dial, in any order.
DialSpecInit == NoFiles /\ DialInit /\ SetupInit({{1}})

DialSpec == DialSpecInit /\ [][DialNext]_vars

\* One process with one Logging object, set up and logged to in any order,
\* the setup failing wherever the environment makes it fail.
SetupSpecInit == NoFiles /\ DialInit /\ SetupInit({{1}})

SetupSpec == SetupSpecInit /\ [][SetupNext]_vars

\* One process with several Logging objects.
ManySpecInit == NoFiles /\ DialInit /\ SetupInit({Insts})

ManySpec == ManySpecInit /\ [][ManyNext]_vars

Spec == Init /\ [][Next]_vars

\* The processes start on a log file that an earlier run has left with one
\* record in it (the handlers open it with mode 'a').
OldRecord == <<0, 0, 1>>

OldFileInit ==
    /\ active \in Writers
    /\ maxBytes \in 0..MaxBytesBound
    /\ backupCount \in 0..MaxBackupCount
    /\ pc = [p \in Procs |-> "idle"]
    /\ rec = [p \in Procs |-> <<p, 0, 0>>]
    /\ sent = [p \in Procs |-> 0]
    /\ names = [i \in NameIdx |-> IF i = 0 THEN 1 ELSE 0]
    /\ stream = [p \in Procs |-> IF p \in active THEN 1 ELSE 0]
    /\ content = [i \in Inodes |-> IF i = 1 THEN <<OldRecord>> ELSE << >>]
    /\ lockHolder = 0
    /\ failures = 0
    /\ nappend = [p \in Procs |-> 0]
    /\ nroll = [p \in Procs |-> 0]
    /\ nherr = [p \in Procs |-> 0]
    /\ escaped = [p \in Procs |-> FALSE]
    /\ contended = [p \in Procs |-> FALSE]
    /\ bkBefore = [p \in Procs |-> 0]
    /\ DialInit
    /\ SetupInit({{1}})

OldFileSpec == OldFileInit /\ [][Next]_vars

\* A process that is inside emit keeps running, and the environment injects
\* no failure: the only exceptions are those of a held lock.
FairInit ==
    /\ InitFiles(MaxFailures, Writers, 0..MaxBytesBound, 0..MaxBackupCount)
    /\ DialInit
    /\ SetupInit({{1}})

FairSpec ==
    /\ FairInit
    /\ [][Next]_vars
    /\ \A p \in Procs : WF_vars(EmitStep(p))


----------------------------------------------------------------------------
(* Claims about emit.                                                      *)

\* C1: the rollover critical sections of two different processes never
\* overlap: at most one process is inside `with self.rotate_lock`.
C1_RolloverMutex ==
    \A p, q \in Procs : p # q => ~(InRollover(p) /\ InRollover(q))

\* One process is rotating while a sibling that also needs a rollover has
\* been refused the lock.
C1_Witness ==
    \E p, q \in Procs : p # q /\ pc[p] = "rollover" /\ pc[q] = "sleep"

\* C2: with no other failure, an emit that met a held rotation lock never
\* returns without its record: it returns only with exactly one rotation done
\* and the record appended exactly once, and a process that sleeps on the
\* lock does reach that return.
C2_ContentionRetried ==
    /\ [](\A p \in Procs :
            (pc[p] = "done" /\ contended[p])
                => (nherr[p] = 0 /\ nappend[p] = 1 /\ nroll[p] = 1))
    /\ \A p \in Procs :
            (pc[p] = "sleep")
                ~> (pc[p] = "done" /\ nappend[p] = 1 /\ nroll[p] = 1)

\* An emit has slept on the lock and has then rotated and appended.
C2_Witness ==
    \E p \in Procs :
        /\ pc[p] = "done" /\ contended[p] /\ nherr[p] = 0
        /\ nappend[p] = 1 /\ nroll[p] = 1

\* C3: no exception leaves emit; a failure other than lock contention is
\* reported by exactly one handleError call, the record is not appended, and
\* emit returns at once, without a retry.
C3_FailureSwallowed ==
    \A p \in Procs :
        /\ ~escaped[p]
        /\ nherr[p] > 0 => (pc[p] = "done" /\ nherr[p] = 1 /\ nappend[p] = 0)

\* A process whose first record was dropped by a failure has appended its
\* second record.
C3_Witness ==
    \E p \in Procs :
        /\ failures = 1 /\ TotalSent = sent[p] /\ sent[p] = 2
        /\ pc[p] = "done" /\ nherr[p] = 0 /\ nappend[p] = 1

\* C4: a process holds the rotation lock only inside the with block around
\* doRollover: not while it tests, appends, sleeps, or after emit returned.
C4_LockOnlyInRollover ==
    \A p \in Procs : lockHolder = p => InRollover(p)

\* doRollover raised (it left the stream closed), emit has returned and the
\* lock is free.
C4_Witness ==
    \E p \in Procs :
        pc[p] = "done" /\ nherr[p] = 1 /\ stream[p] = 0 /\ lockHolder = 0


Min(a, b) == IF a < b THEN a ELSE b

\* C5: for a single sink with rotation configured (maxBytes > 0 and
\* backupCount >= 1), a record that would take the file over maxBytes is
\* appended only after a rotation; after the rotation the current file is
\* empty; and when emit returns there is a backup .1, the backups are one
\* more than before (or backupCount of them, the oldest one gone), never
\* more than backupCount, and the record is the only one in the current file
\* and is in no backup.
C5_RotateThenAppend ==
    (active = {1} /\ maxBytes > 0 /\ backupCount >= 1) =>
        /\ (pc[1] = "append" /\ nroll[1] = 0)
               => ~(Tell(stream[1]) + rec[1][3] > maxBytes)
        /\ (pc[1] = "append" /\ nroll[1] = 1)
               => (stream[1] = names[0] /\ content[names[0]] = << >>)
        /\ (pc[1] = "done" /\ nroll[1] = 1 /\ nappend[1] = 1)
               => /\ names[1] # 0
                  /\ NumBackups(names) = Min(bkBefore[1] + 1, backupCount)
                  /\ content[names[0]] = <<rec[1]>>
                  /\ ~InBackups(rec[1])
        /\ NumBackups(names) <= backupCount

\* A single sink has rotated with backupCount backups already present and
\* has appended the record that made it rotate.
C5_Witness ==
    /\ active = {1} /\ maxBytes > 0 /\ backupCount >= 1
    /\ pc[1] = "done" /\ nroll[1] = 1 /\ nappend[1] = 1
    /\ bkBefore[1] = backupCount
    /\ Tell(names[1]) + rec[1][3] > maxBytes


C17_OneRotationPerCrossing ==
    \A p \in Procs :
        (pc[p] = "rollover" /\ names[0] # 0) =>
            (maxBytes > 0 /\ Tell(names[0]) + rec[p][3] >= maxBytes)


----------------------------------------------------------------------------
(* Claims about the setup of the loggers.                                  *)

\* The stream thresholds and the sinks attached to each stream (loggers),
\* and the thresholds of the sinks (handlers).
Config(s) == [loggers |-> s.loggers, handlers |-> s.handlers]

ConsolesOn(n, kind) ==
    {k \in 1..Len(loggers[n].handlers) :
        handlers[loggers[n].handlers[k]].kind = kind}

\* C7: once _presetup has been called in the process, on whichever Logging
\* objects and however often, the logger 'dnf' has exactly one stdout handler
\* and exactly one stderr handler.
C7_OneConsolePair ==
    (\E i \in insts : "_presetup" \in onceDone[i]) =>
        /\ Cardinality(ConsolesOn("dnf", "stdout")) = 1
        /\ Cardinality(ConsolesOn("dnf", "stderr")) = 1

\* C8: after a first _setup that came from the configuration with dials
\* (v, e) in 0..10 and returned, a record of level L logged on 'dnf' is
\* written to the file dnf.log iff L >= TRACE, to stdout iff
\* cfg_verbose_val2level(v) <= L < WARNING, and to stderr iff
\* L >= cfg_err_val2level(e); never to both consoles; and with e = 0 no
\* record up to CRITICAL is written to stderr.
C8_Routing ==
    \A v \in 0..10, e \in 0..10 :
        ( /\ firstSetup[1].ok /\ firstSetup[1].conf
          /\ firstSetup[1].verbose_level = cfg_verbose_val2level(v).level
          /\ firstSetup[1].error_level = cfg_err_val2level(e).level
          /\ lastLog.logger = "dnf" ) =>
            LET L == lastLog.level
                file == Reaches(lastLog.to, File(firstSetup[1].logdir, LOG))
                out == Reaches(lastLog.to, Console("stdout"))
                err == Reaches(lastLog.to, Console("stderr"))
            IN  /\ file <=> L >= TRACE
                /\ out <=> (cfg_verbose_val2level(v).level <= L /\ L < WARNING)
                /\ err <=> L >= cfg_err_val2level(e).level
                /\ ~(out /\ err)
                /\ (e = 0 /\ L <= CRITICAL) => ~err

\* With the error dial 0, a CRITICAL record on 'dnf' is in the file and not
\* on stderr.
C8_Witness ==
    /\ firstSetup[1].ok /\ firstSetup[1].conf
    /\ firstSetup[1].error_level = cfg_err_val2level(0).level
    /\ lastLog.logger = "dnf" /\ lastLog.level = CRITICAL
    /\ Reaches(lastLog.to, File(firstSetup[1].logdir, LOG))
    /\ ~Reaches(lastLog.to, Console("stderr"))


\* The file a marker of logger n is meant for.
MarkFile(n) == IF n = "dnf" THEN LOG ELSE LOG_RPM

\* C13: on one Logging object, every marker record painted by _setup is
\* written to the log file of its logger, once, and to nothing else, so to
\* neither console (they are at SUPERCRITICAL while the file handlers are
\* made, and 'dnf.rpm' has no console handler yet); and once the first
\* _setup call has returned, stdout has the verbose level and stderr the
\* error level it was called with.
C13_ConsolesOffDuringSetup ==
    /\ \A k \in 1..Len(marks) :
          /\ marks[k].level = INFO
          /\ Len(marks[k].to) = 1
          /\ marks[k].to[1].name = MarkFile(marks[k].logger)
          /\ ~Reaches(marks[k].to, Console("stdout"))
          /\ ~Reaches(marks[k].to, Console("stderr"))
    /\ firstSetup[1].ok =>
          /\ handlers[stdout_handler[1]].level = firstSetup[1].verbose_level
          /\ handlers[stderr_handler[1]].level = firstSetup[1].error_level
          /\ Len(marks) = 2

\* _setup has just returned, called for the first time, with the verbose
\* level INFO of the markers: both markers are painted, in the files only.
C13_Witness ==
    /\ firstSetup[1].ok /\ firstSetup[1].verbose_level = INFO
    /\ lastCall.op = "_setup" /\ ~lastCall.again
    /\ Len(marks) = 2
    /\ marks[1].to = <<File(firstSetup[1].logdir, LOG)>>
    /\ marks[2].to = <<File(firstSetup[1].logdir, LOG_RPM)>>


\* C14: between calls, as long as no _setup call has returned (none was
\* made, or every one raised), the consoles made by _presetup have the
\* levels _presetup gave them, INFO and WARNING, not the SUPERCRITICAL that
\* _setup sets while it works; so a WARNING record logged on 'dnf' after a
\* _setup that raised is written to stderr.
C14_SuppressionTemporary ==
    (stdout_handler[1] # 0 /\ "_setup" \notin onceDone[1]) =>
        /\ handlers[stdout_handler[1]].level = INFO
        /\ handlers[stderr_handler[1]].level = WARNING
        /\ (lastLog.logger = "dnf" /\ lastLog.level = WARNING)
               => Reaches(lastLog.to, Console("stderr"))


\* C15: on one Logging object whose first _setup call returned, logger
\* 'dnf.rpm' does not propagate; a record of level L logged on it is written
\* to dnf.rpm.log once iff L >= SUBDEBUG, to stdout at most once and iff
\* L >= SUBDEBUG and verbose_level <= L < WARNING, to stderr at most once and
\* iff L >= SUBDEBUG and L >= error_level, and never to dnf.log; and a record
\* logged on 'dnf' is never written to dnf.rpm.log.
C15_RpmIndependent ==
    firstSetup[1].ok =>
        LET L == lastLog.level
            dir == firstSetup[1].logdir
            on == L >= SUBDEBUG
        IN  /\ ~loggers["dnf.rpm"].propagate
            /\ lastLog.logger = "dnf.rpm" =>
                  /\ Count(lastLog.to, File(dir, LOG_RPM)) = (IF on THEN 1 ELSE 0)
                  /\ Count(lastLog.to, Console("stdout")) =
                        (IF on /\ firstSetup[1].verbose_level <= L /\ L < WARNING
                         THEN 1 ELSE 0)
                  /\ Count(lastLog.to, Console("stderr")) =
                        (IF on /\ L >= firstSetup[1].error_level THEN 1 ELSE 0)
                  /\ ~Reaches(lastLog.to, File(dir, LOG))
            /\ lastLog.logger = "dnf" =>
                  ~Reaches(lastLog.to, File(dir, LOG_RPM))

\* A WARNING record logged on 'dnf.rpm' is in dnf.rpm.log and on stderr and
\* not in dnf.log.
C15_Witness ==
    /\ firstSetup[1].ok /\ firstSetup[1].error_level = WARNING
    /\ lastLog.logger = "dnf.rpm" /\ lastLog.level = WARNING
    /\ lastLog.to = <<File(firstSetup[1].logdir, LOG_RPM), Console("stderr")>>


----------------------------------------------------------------------------
(* Claims about the bridge from libdnf.                                    *)

\* The table of C11: critical -> CRITICAL, error -> ERROR, warning ->
\* WARNING, notice -> INFO, info -> INFO, debug -> DEBUG, trace -> TRACE.
NativeTable(l) ==
    IF l = "critical" THEN CRITICAL
    ELSE IF l = "error" THEN ERROR
    ELSE IF l = "warning" THEN WARNING
    ELSE IF l \in {"notice", "info"} THEN INFO
    ELSE IF l = "debug" THEN DEBUG
    ELSE TRACE

\* write has been called with a level of the table, after a first _setup
\* that returned.
WroteKnown ==
    /\ lastLog.args # << >>
    /\ ArgsLevel(lastLog.args) \in NativeLevels
    /\ firstSetup[1].ok

\* C11, as stated: write logs one record, of the level the table gives and
\* with the message of the payload, whichever the shape of the payload, on
\* the logger 'dnf.rpm', and the record is written to dnf.rpm.log.
C11_Original ==
    WroteKnown =>
        /\ ~lastLog.raised
        /\ lastLog.level = NativeTable(ArgsLevel(lastLog.args))
        /\ lastLog.msg = ArgsMessage(lastLog.args)
        /\ lastLog.logger = "dnf.rpm"
        /\ Count(lastLog.to, File(firstSetup[1].logdir, LOG_RPM)) = 1

\* C11, amended: write logs one record, of the level the table gives and
\* with the message of the payload, whichever the shape of the payload, on
\* the logger 'dnf'; the record is written once to dnf.log and not to
\* dnf.rpm.log.
C11_WriteToDnf ==
    WroteKnown =>
        /\ ~lastLog.raised
        /\ lastLog.level = NativeTable(ArgsLevel(lastLog.args))
        /\ lastLog.msg = ArgsMessage(lastLog.args)
        /\ lastLog.logger = "dnf"
        /\ Count(lastLog.to, File(firstSetup[1].logdir, LOG)) = 1
        /\ ~Reaches(lastLog.to, File(firstSetup[1].logdir, LOG_RPM))

\* The payload (time, pid, "notice", "disk slow") has been written, as an
\* INFO record in dnf.log.
C11_Witness ==
    /\ firstSetup[1].ok
    /\ lastLog.args = <<0, 1, "notice", "disk slow">>
    /\ lastLog.level = INFO /\ lastLog.msg = "disk slow"
    /\ Reaches(lastLog.to, File(firstSetup[1].logdir, LOG))


\* C16: write called with a level that is not in the table raises, logs no
\* record, at WARNING or at any other level, to any sink, and the step that
\* makes the call leaves the loggers, the handlers and the once-marks as
\* they were.
C16_UnknownLevelRaises ==
    /\ []((lastLog.args # << >> /\ ArgsLevel(lastLog.args) \notin NativeLevels)
            => /\ lastLog.raised
               /\ lastLog.logger = "" /\ lastLog.level = 0
               /\ lastLog.to = << >>)
    /\ [][(lastLog.args = << >> /\ lastLog'.args # << >>)
            => /\ loggers' = loggers /\ handlers' = handlers
               /\ onceDone' = onceDone /\ levelNames' = levelNames
               /\ raiseExceptions' = raiseExceptions]_vars

\* After a setup, write has been called with the level "other" and raised.
C16_Witness ==
    /\ firstSetup[1].ok
    /\ lastLog.args = <<0, 1, "other", "done">>
    /\ lastLog.raised /\ lastLog.to = << >>


\* The kinds of the handlers on logger n, in the order they were added.
KindsOn(n) ==
    [k \in 1..Len(loggers[n].handlers) |-> handlers[loggers[n].handlers[k]].kind]

\* The markers painted on logger n so far.
MarksOn(n) == {k \in 1..Len(marks) : marks[k].logger = n}

C19_LibrepoDebugGate ==
    /\ [](firstSetup[1].ok =>
            /\ librepoLog = <<[dir |-> firstSetup[1].logdir, name |-> LOG_LIBREPO,
                               debug |-> firstSetup[1].verbose_level <= DEBUG]>>
            /\ firstSetup[1].conf =>
                  \A v \in 0..10 :
                      cfg_verbose_val2level(v).level = firstSetup[1].verbose_level
                          => (librepoLog[1].debug <=> v \in 3..10))
    /\ [][librepoLog # << >> => librepoLog' = librepoLog]_vars

\* The first call was _setup_from_dnf_conf with a dial of 7..10, the flag is
\* set, and a later _setup call with other arguments has returned.
C19_Witness ==
    /\ firstSetup[1].ok /\ firstSetup[1].conf
    /\ firstSetup[1].verbose_level = DDEBUG
    /\ librepoLog # << >> /\ librepoLog[1].debug
    /\ lastCall.op = "_setup" /\ lastCall.again /\ lastCall.differs
    /\ ~lastCall.raised

----------------------------------------------------------------------------
(* Claims about the dial tables.                                          *)

\* The level the verbosity table of C9 gives, with 7..10 -> d.
VerboseTable(v, d) ==
    IF v = 0 THEN SUPERCRITICAL
    ELSE IF v \in 1..2 THEN INFO
    ELSE IF v \in 3..6 THEN DEBUG
    ELSE d

\* C9, as stated: 7..10 give the most verbose named tier below DEBUG, which
\* in the rank order TRACE < SUBDEBUG < DDEBUG < DEBUG is TRACE.
C9_Original ==
    verbRes # NotCalled =>
        IF verbVal \in 0..10 THEN verbRes = Returned(VerboseTable(verbVal, TRACE))
        ELSE verbRes = AssertionError

\* C9, amended: 0 -> SUPERCRITICAL, 1..2 -> INFO, 3..6 -> DEBUG, and 7..10 ->
\* DDEBUG, the named tier next below DEBUG (the least verbose of the tiers
\* below DEBUG, not the most verbose); a dial outside 0..10 fails the assert.
C9_VerboseTable ==
    verbRes # NotCalled =>
        IF verbVal \in 0..10 THEN verbRes = Returned(VerboseTable(verbVal, DDEBUG))
        ELSE verbRes = AssertionError

\* Dial 7 has been mapped, to DDEBUG.
C9_Witness == verbVal = 7 /\ verbRes = Returned(DDEBUG)

\* C10: 0 -> SUPERCRITICAL, 1 -> CRITICAL, 2 -> ERROR, 3..10 -> WARNING, a
\* dial outside 0..10 fails the assert; so no level returned is below WARNING.
C10_ErrTable ==
    errRes # NotCalled =>
        IF errVal \in 0..10
        THEN /\ errRes = Returned(IF errVal = 0 THEN SUPERCRITICAL
                                  ELSE IF errVal = 1 THEN CRITICAL
                                  ELSE IF errVal = 2 THEN ERROR
                                  ELSE WARNING)
             /\ errRes.level >= WARNING
        ELSE errRes = AssertionError

\* The error dial 10 has been mapped, to WARNING, and a dial of 11 refused.
C10_Witness ==
    /\ errVal = 10 /\ errRes = Returned(WARNING)
    /\ verbVal = 11 /\ verbRes = AssertionError

====
